---- MODULE Spec2Model ----
(***************************************************************************)
(* Model of hdbscan/plots.py: the CondensedTree object, its layout         *)
(* computation get_plot_data and its excess-of-mass cluster selection      *)
(* _select_clusters.                                                       *)
(*                                                                         *)
(* Numbers.  Lambdas are integers (a unit of 1/2 for the documented        *)
(* scenario).  Horizontal quantities (x coordinates, bar centres, box      *)
(* sides, connector ends) are integers in units of 1/XDen, so that the     *)
(* means and halves the code takes are exact.  log_size is False.          *)
(***************************************************************************)
EXTENDS Integers, Sequences, FiniteSets, TLC

\* ---------------------------------------------------------------- bounds
\* cluster ids of the selection inputs are 0..k for some k <= MaxId
MaxId == 3
\* cluster ids of the layout inputs are drawn from 0..MaxPlotId
MaxPlotId == 2
\* lambdas of generated records are drawn from 1..MaxLambda
MaxLambda == 2
\* point records in a generated tree
MaxPoints == 1
\* stability scores are drawn from 0..MaxStab
MaxStab == 1

\* ------------------------------------------------------ program constants
CB_LEFT   == 0
CB_RIGHT  == 1
CB_BOTTOM == 2
CB_TOP    == 3

\* unit of the horizontal quantities: np.mean and /2.0 stay exact
XDen == 2 ^ (MaxPlotId + 2)

VARIABLES
  raw_tree,          \* self._raw_tree: sequence of records
  plotPc,            \* position inside get_plot_data
  leaf_separation,   \* argument of get_plot_data
  cluster_x_coords,  \* dict cluster -> x (units of 1/XDen)
  cluster_y_coords,  \* dict cluster -> lambda
  cluster,           \* loop variable of the coordinate loop (line 51)
  c,                 \* loop variable of the bar loop (line 77)
  scaling,           \* line 72
  bar_centers, bar_tops, bar_bottoms, bar_widths,
  cluster_bounds,    \* dict cluster -> [CB_LEFT..CB_TOP -> number]
  lineIdx,           \* index of the next row of the connector loop (line 110)
  line_xs, line_ys,
  err, errKey,       \* exception raised by get_plot_data, and the missing key
  stabMap,           \* what compute_stability returns for raw_tree
  selPc,             \* position inside _select_clusters
  stability,         \* local dict of _select_clusters
  node_list,         \* nodes still to be processed by the loop at line 142
  is_cluster,        \* local dict of _select_clusters
  results            \* <<the list the latest call of _select_clusters returned>>, <<>> before

plotVars == <<plotPc, leaf_separation, cluster_x_coords, cluster_y_coords,
              cluster, c, scaling, bar_centers, bar_tops, bar_bottoms,
              bar_widths, cluster_bounds, lineIdx, line_xs, line_ys, err, errKey>>
selVars  == <<selPc, stability, node_list, is_cluster, results>>
vars     == <<raw_tree, stabMap, plotVars, selVars>>

\* ------------------------------------------------------- generic helpers
Range(s) == {s[i] : i \in 1..Len(s)}

RECURSIVE SumSeq(_)
SumSeq(s) == IF s = <<>> THEN 0 ELSE Head(s) + SumSeq(Tail(s))

RECURSIVE SumSet(_, _)
SumSet(f, S) ==
  IF S = {} THEN 0
  ELSE LET x == CHOOSE y \in S : TRUE IN f[x] + SumSet(f, S \ {x})

SetMin(S) == CHOOSE x \in S : \A y \in S : x <= y
SetMax(S) == CHOOSE x \in S : \A y \in S : x >= y

RECURSIVE SortedAsc(_)
SortedAsc(S) == IF S = {} THEN <<>> ELSE <<SetMin(S)>> \o SortedAsc(S \ {SetMin(S)})

RECURSIVE SortedDesc(_)
SortedDesc(S) == IF S = {} THEN <<>> ELSE <<SetMax(S)>> \o SortedDesc(S \ {SetMax(S)})

\* dict[k] = v
Put(d, k, v) == (k :> v) @@ d

EmptyDict == <<>>

\* ------------------------------------------------ the condensed tree array
Rec(p, ch, l, sz) == [parent |-> p, child |-> ch, lambda |-> l, child_size |-> sz]

\* condensed_tree[condensed_tree['child_size'] > 1]
ClusterTree(t) == SelectSeq(t, LAMBDA r : r.child_size > 1)

\* tree[tree['parent'] == p]
RowsOf(t, p) == SelectSeq(t, LAMBDA r : r.parent = p)

Column(t, f) == [i \in 1..Len(t) |-> t[i][f]]

Parents(t) == {t[i].parent : i \in 1..Len(t)}
Root(t)     == SetMin(Parents(t))
LastLeaf(t) == SetMax(Parents(t))

\* the clusters: the root and every child with child_size > 1
ChildClusters(t) == {r.child : r \in Range(ClusterTree(t))}
Clusters(t)      == {Root(t)} \cup ChildClusters(t)

ClusterChildren(t, n) == {r.child : r \in {q \in Range(ClusterTree(t)) : q.parent = n}}

RECURSIVE Descendants(_, _)
Descendants(t, n) ==
  ClusterChildren(t, n) \cup UNION {Descendants(t, k) : k \in ClusterChildren(t, n)}

OrderedIds(t) == \A r \in Range(ClusterTree(t)) : r.parent < r.child

\* ----------------------------------------------------- generated inputs
\* A shape is a set of cluster ids C, a root and a parent map of the others.
RECURSIVE ReachesRoot(_, _, _, _)
ReachesRoot(par, n, r, fuel) ==
  IF n = r THEN TRUE
  ELSE IF fuel = 0 THEN FALSE
  ELSE ReachesRoot(par, par[n], r, fuel - 1)

ShapesOn(C) ==
  UNION { { [C |-> C, root |-> r, par |-> p] :
            p \in { q \in [C \ {r} -> C] :
                      /\ \A n \in C \ {r} : ReachesRoot(q, n, r, Cardinality(C))
                      /\ \A m \in C : Cardinality({n \in C \ {r} : q[n] = m}) <= 2 } } :
          r \in C }

\* the lambdas of the point children of one cluster, in array order
PointConfigs ==
  UNION { { s \in [1..n -> 1..MaxLambda] : \A i \in 1..(n-1) : s[i] <= s[i+1] } :
          n \in 0..MaxPoints }

\* the point children of every cluster, at most MaxPoints in the whole tree
PointAssignments(C) ==
  { f \in [C -> PointConfigs] : SumSet([k \in C |-> Len(f[k])], C) <= MaxPoints }

NoPoints(C) == [k \in C |-> <<>>]

ShapeChildren(s, n) == {k \in s.C \ {s.root} : s.par[k] = n}

\* child_size of a cluster: the points below it (at least 2)
RECURSIVE PointsBelow(_, _, _)
PointsBelow(s, pts, n) ==
  Len(pts[n]) + SumSet([k \in ShapeChildren(s, n) |-> PointsBelow(s, pts, k)],
                       ShapeChildren(s, n))

SizeOf(s, pts, n) == IF PointsBelow(s, pts, n) > 1 THEN PointsBelow(s, pts, n) ELSE 2

RowsOfCluster(s, lam, pts, n) ==
  LET kids == SortedAsc(ShapeChildren(s, n))
  IN  [i \in 1..Len(kids) |-> Rec(n, kids[i], lam[kids[i]], SizeOf(s, pts, kids[i]))]
      \o [j \in 1..Len(pts[n]) |-> Rec(n, 0 - (1 + n + (j - 1) * (SetMax(s.C) + 1)), pts[n][j], 1)]

RECURSIVE ConcatRows(_, _, _, _)
ConcatRows(s, lam, pts, order) ==
  IF order = <<>> THEN <<>>
  ELSE RowsOfCluster(s, lam, pts, Head(order)) \o ConcatRows(s, lam, pts, Tail(order))

TreeOf(s, lam, pts) == ConcatRows(s, lam, pts, SortedAsc(s.C))

\* section 3: the array is not empty and the cluster tree is rooted at min(parent)
WellFormed(s, t) == t # <<>> /\ Root(t) = s.root

\* the documented scenario; lambda in units of 1/2
ScenarioTree ==
  << Rec(0, 1, 1, 40), Rec(0, 2, 1, 60), Rec(1, 3, 2, 15), Rec(1, 4, 2, 25) >>

\* the arrays get_plot_data is tried on
IsPlotTree(t) ==
  \/ t = ScenarioTree
  \/ \E C \in (SUBSET (0..MaxPlotId)) \ {{}} :
       \E s \in ShapesOn(C) :
         \E pts \in PointAssignments(C) :
           \E lam \in [C \ {s.root} -> 1..MaxLambda] :
             t = TreeOf(s, lam, pts) /\ WellFormed(s, t)

\* the arrays _select_clusters is tried on: the selection reads the cluster
\* edges only, and of the ids only their order
IsSelectTree(t) ==
  \/ t = ScenarioTree
  \/ \E k \in 0..MaxId :
       \E s \in ShapesOn(0..k) :
         t = TreeOf(s, [n \in (0..k) \ {s.root} |-> 1], NoPoints(0..k)) /\ WellFormed(s, t)

\* ---------------------------------------------------------- get_leaves
get_leaves(t) ==
  LET cluster_tree == ClusterTree(t)
  IN  SelectSeq(Column(cluster_tree, "child"),
             LAMBDA k : RowsOf(cluster_tree, k) = <<>>)


\* ------------------------------------------------------- get_plot_data
Sign(v) == IF v > 0 THEN 1 ELSE IF v < 0 THEN 0 - 1 ELSE 0

\* the default of the argument leaf_separation
DefaultLeafSeparation == 1

\* a loop that stops one id above the root
LoopActiveAboveRoot(i, t) == i > Root(t)

\* range(last_leaf, root - 1, -1) is walked by a counter from last_leaf down
\* to root; LoopActive says the counter is still inside the range
LoopActive(i, t) == i >= Root(t)

\* split of line 52-54: the cluster children of a cluster, in array order
Split(t, n) == SelectSeq(t, LAMBDA r : r.parent = n /\ r.child_size > 1)

\* np.mean of two x coordinates
Mean2(a, b) == (a + b) \div 2

\* np.argsort(c_children['lambda']): the order among equal lambdas is not
\* specified, so every permutation that sorts the lambdas is possible
SortedOrders(rows) ==
  { p \in [1..Len(rows) -> 1..Len(rows)] :
      /\ \A i, j \in 1..Len(rows) : i # j => p[i] # p[j]
      /\ \A i \in 1..(Len(rows) - 1) : rows[p[i]].lambda <= rows[p[i+1]].lambda }

\* line 95
EmitsBar(row, current_lambda) == row.lambda # current_lambda

\* a walk that forgets to shrink the running size
NextSizeKept(current_size, row) == current_size

\* line 103 (log_size False)
NextSize(current_size, row) == current_size - row.child_size

NoBars == [centers |-> <<>>, tops |-> <<>>, bottoms |-> <<>>, widths |-> <<>>]

\* the loop of lines 93-104 over the rows in argsort order
RECURSIVE BarWalk(_, _, _, _, _)
BarWalk(rows, center, current_size, current_lambda, acc) ==
  IF rows = <<>> THEN acc
  ELSE LET row  == Head(rows)
           acc2 == IF EmitsBar(row, current_lambda)
                   THEN [centers |-> Append(acc.centers, center),
                         tops    |-> Append(acc.tops, row.lambda - current_lambda),
                         bottoms |-> Append(acc.bottoms, current_lambda),
                         widths  |-> Append(acc.widths, current_size)]
                   ELSE acc
       IN  BarWalk(Tail(rows), center, NextSize(current_size, row), row.lambda, acc2)

\* lines 79, 88-91
Bounds(x, y, size, top) ==
  (CB_LEFT :> (x - (size * XDen) \div 2)) @@ (CB_RIGHT :> (x + (size * XDen) \div 2))
  @@ (CB_BOTTOM :> y) @@ (CB_TOP :> top)

ZeroBounds == (CB_LEFT :> 0) @@ (CB_RIGHT :> 0) @@ (CB_BOTTOM :> 0) @@ (CB_TOP :> 0)

\* a connector loop over the root's cluster children only
LineRowsOfRoot(t) == SelectSeq(t, LAMBDA r : r.child_size > 1 /\ r.parent = Root(t))

\* the rows of the connector loop, line 110
LineRows(t) == ClusterTree(t)

Raise(kind, key) == plotPc' = "error" /\ err' = kind /\ errKey' = key

\* lines 40-49
PlotStart ==
  /\ plotPc = "idle"
  /\ LET leaves == get_leaves(raw_tree)
     IN  /\ leaf_separation' = DefaultLeafSeparation
         /\ cluster_x_coords' = [k \in Range(leaves) |->
               DefaultLeafSeparation * ((CHOOSE i \in 1..Len(leaves) :
                 leaves[i] = k /\ \A j \in (i+1)..Len(leaves) : leaves[j] # k) - 1) * XDen]
  /\ cluster_y_coords' = (Root(raw_tree) :> 0)
  /\ cluster' = LastLeaf(raw_tree)
  /\ plotPc' = "coords"
  /\ UNCHANGED <<raw_tree, stabMap, selVars, c, scaling, bar_centers, bar_tops,
                 bar_bottoms, bar_widths, cluster_bounds, lineIdx, line_xs,
                 line_ys, err, errKey>>

\* one iteration of the loop of lines 51-60
CoordStep ==
  /\ plotPc = "coords"
  /\ LoopActive(cluster, raw_tree)
  /\ LET split == Split(raw_tree, cluster)
     IN  IF Len(split) > 1
         THEN IF Len(split) # 2
              THEN /\ Raise("ValueError", cluster)
                   /\ UNCHANGED <<cluster_x_coords, cluster_y_coords, cluster>>
              ELSE LET left_child  == split[1].child
                       right_child == split[2].child
                   IN  IF left_child \notin DOMAIN cluster_x_coords
                       THEN /\ Raise("KeyError", left_child)
                            /\ UNCHANGED <<cluster_x_coords, cluster_y_coords, cluster>>
                       ELSE IF right_child \notin DOMAIN cluster_x_coords
                       THEN /\ Raise("KeyError", right_child)
                            /\ UNCHANGED <<cluster_x_coords, cluster_y_coords, cluster>>
                       ELSE /\ cluster_x_coords' =
                                 Put(cluster_x_coords, cluster,
                                     Mean2(cluster_x_coords[left_child],
                                           cluster_x_coords[right_child]))
                            /\ cluster_y_coords' =
                                 Put(Put(cluster_y_coords, left_child, split[1].lambda),
                                     right_child, split[2].lambda)
                            /\ cluster' = cluster - 1
                            /\ UNCHANGED <<plotPc, err, errKey>>
         ELSE /\ cluster' = cluster - 1
              /\ UNCHANGED <<cluster_x_coords, cluster_y_coords, plotPc, err, errKey>>
  /\ UNCHANGED <<raw_tree, stabMap, selVars, leaf_separation, c, scaling,
                 bar_centers, bar_tops, bar_bottoms, bar_widths, cluster_bounds,
                 lineIdx, line_xs, line_ys>>

\* lines 65-75, once the coordinate loop is over
BarInit ==
  /\ plotPc = "coords"
  /\ ~LoopActive(cluster, raw_tree)
  /\ bar_centers' = <<>> /\ bar_tops' = <<>> /\ bar_bottoms' = <<>> /\ bar_widths' = <<>>
  /\ cluster_bounds' = EmptyDict
  /\ scaling' = SumSeq(Column(RowsOf(raw_tree, Root(raw_tree)), "child_size"))
  /\ c' = LastLeaf(raw_tree)
  /\ plotPc' = "bars"
  /\ UNCHANGED <<raw_tree, stabMap, selVars, leaf_separation, cluster_x_coords,
                 cluster_y_coords, cluster, lineIdx, line_xs, line_ys, err, errKey>>

\* one iteration of the loop of lines 77-104
BarStep ==
  /\ plotPc = "bars"
  /\ LoopActive(c, raw_tree)
  /\ LET c_children   == RowsOf(raw_tree, c)
         current_size == SumSeq(Column(c_children, "child_size"))
     IN  IF c \notin DOMAIN cluster_y_coords \/ c \notin DOMAIN cluster_x_coords
         THEN /\ Raise("KeyError", c)
              /\ cluster_bounds' = Put(cluster_bounds, c, ZeroBounds)
              /\ UNCHANGED <<c, bar_centers, bar_tops, bar_bottoms, bar_widths>>
         ELSE IF c_children = <<>>
         THEN \* np.max of an empty column, after lines 88-90 were stored
              /\ Raise("ValueError", c)
              /\ cluster_bounds' =
                   Put(cluster_bounds, c,
                       Bounds(cluster_x_coords[c] * scaling, cluster_y_coords[c],
                              current_size, 0))
              /\ UNCHANGED <<c, bar_centers, bar_tops, bar_bottoms, bar_widths>>
         ELSE \E order \in SortedOrders(c_children) :
                LET sorted == [i \in 1..Len(c_children) |-> c_children[order[i]]]
                    bars   == BarWalk(sorted, cluster_x_coords[c] * scaling,
                                      current_size, cluster_y_coords[c], NoBars)
                IN  /\ cluster_bounds' =
                         Put(cluster_bounds, c,
                             Bounds(cluster_x_coords[c] * scaling, cluster_y_coords[c],
                                    current_size,
                                    SetMax(Range(Column(c_children, "lambda")))))
                    /\ bar_centers' = bar_centers \o bars.centers
                    /\ bar_tops'    = bar_tops \o bars.tops
                    /\ bar_bottoms' = bar_bottoms \o bars.bottoms
                    /\ bar_widths'  = bar_widths \o bars.widths
                    /\ c' = c - 1
                    /\ UNCHANGED <<plotPc, err, errKey>>
  /\ UNCHANGED <<raw_tree, stabMap, selVars, leaf_separation, cluster_x_coords,
                 cluster_y_coords, cluster, scaling, lineIdx, line_xs, line_ys>>

\* lines 107-108, once the bar loop is over
LineInit ==
  /\ plotPc = "bars"
  /\ ~LoopActive(c, raw_tree)
  /\ line_xs' = <<>> /\ line_ys' = <<>>
  /\ lineIdx' = 1
  /\ plotPc' = "lines"
  /\ UNCHANGED <<raw_tree, stabMap, selVars, leaf_separation, cluster_x_coords,
                 cluster_y_coords, cluster, c, scaling, bar_centers, bar_tops,
                 bar_bottoms, bar_widths, cluster_bounds, err, errKey>>

\* one iteration of the loop of lines 110-124
LineStep ==
  /\ plotPc = "lines"
  /\ lineIdx <= Len(LineRows(raw_tree))
  /\ LET row == LineRows(raw_tree)[lineIdx]
     IN  IF row.child \notin DOMAIN cluster_x_coords
         THEN Raise("KeyError", row.child) /\ UNCHANGED <<lineIdx, line_xs, line_ys>>
         ELSE IF row.parent \notin DOMAIN cluster_x_coords
         THEN Raise("KeyError", row.parent) /\ UNCHANGED <<lineIdx, line_xs, line_ys>>
         ELSE IF row.child \notin DOMAIN cluster_y_coords
         THEN Raise("KeyError", row.child) /\ UNCHANGED <<lineIdx, line_xs, line_ys>>
         ELSE LET sign == Sign(cluster_x_coords[row.child] - cluster_x_coords[row.parent])
              IN  /\ line_xs' = Append(line_xs,
                        << cluster_x_coords[row.parent] * scaling,
                           cluster_x_coords[row.child] * scaling
                             + sign * ((row.child_size * XDen) \div 2) >>)
                  /\ line_ys' = Append(line_ys,
                        << cluster_y_coords[row.child], cluster_y_coords[row.child] >>)
                  /\ lineIdx' = lineIdx + 1
                  /\ UNCHANGED <<plotPc, err, errKey>>
  /\ UNCHANGED <<raw_tree, stabMap, selVars, leaf_separation, cluster_x_coords,
                 cluster_y_coords, cluster, c, scaling, bar_centers, bar_tops,
                 bar_bottoms, bar_widths, cluster_bounds>>

\* lines 126-134
PlotReturn ==
  /\ plotPc = "lines"
  /\ lineIdx > Len(LineRows(raw_tree))
  /\ plotPc' = "done"
  /\ UNCHANGED <<raw_tree, stabMap, selVars, leaf_separation, cluster_x_coords,
                 cluster_y_coords, cluster, c, scaling, bar_centers, bar_tops,
                 bar_bottoms, bar_widths, cluster_bounds, lineIdx, line_xs,
                 line_ys, err, errKey>>

PlotIdle ==
  /\ plotPc = "idle" /\ leaf_separation = DefaultLeafSeparation
  /\ cluster_x_coords = EmptyDict /\ cluster_y_coords = EmptyDict
  /\ cluster = 0 /\ c = 0 /\ scaling = 0
  /\ bar_centers = <<>> /\ bar_tops = <<>> /\ bar_bottoms = <<>> /\ bar_widths = <<>>
  /\ cluster_bounds = EmptyDict
  /\ lineIdx = 0 /\ line_xs = <<>> /\ line_ys = <<>>
  /\ err = "none" /\ errKey = 0

SelectIdle ==
  /\ selPc = "idle" /\ stability = EmptyDict /\ node_list = <<>>
  /\ is_cluster = EmptyDict /\ results = <<>>

InitPlot ==
  /\ IsPlotTree(raw_tree)
  /\ stabMap = [k \in Clusters(raw_tree) |-> 0]
  /\ PlotIdle
  /\ SelectIdle

NextPlot == PlotStart \/ CoordStep \/ BarInit \/ BarStep \/ LineInit \/ LineStep \/ PlotReturn

SpecPlot == InitPlot /\ [][NextPlot]_vars


\* ---------------------------------------------------- _select_clusters
\* compute_stability(tree): a score for every cluster, the root included
StabilityMaps(t) ==
  IF t = ScenarioTree
  THEN [Clusters(t) -> 0..MaxStab]
       \cup { (0 :> a) @@ (1 :> 5) @@ (2 :> 5) @@ (3 :> 2) @@ (4 :> 2) : a \in 0..MaxStab }
  ELSE [Clusters(t) -> 0..MaxStab]

\* a call that finds the dict of the previous call instead of a fresh one
StaleStability == IF results = <<>> THEN stabMap ELSE stability

\* line 137: every call computes the stability afresh from the same array
FreshStability == stabMap

\* line 138: sorted(stability.keys(), reverse=True)[:-1]
NodeList(stab) ==
  LET keys == SortedDesc(DOMAIN stab)
  IN  SubSeq(keys, 1, Len(keys) - 1)

\* the loop of lines 28-30
RECURSIVE BfsLoop(_, _, _)
BfsLoop(tree, to_process, result) ==
  IF to_process = <<>> THEN result
  ELSE BfsLoop(tree,
               Column(SelectSeq(tree, LAMBDA r : r.parent \in Range(to_process)), "child"),
               result \o to_process)

\* a search that stops after the direct children
bfs_one_level(tree, bfs_root) ==
  <<bfs_root>> \o Column(SelectSeq(tree, LAMBDA r : r.parent = bfs_root), "child")

bfs_from_cluster_tree(tree, bfs_root) == BfsLoop(tree, <<bfs_root>>, <<>>)

\* a comparison that lets the children win a tie
SubtreeTies(subtree_stability, own) == subtree_stability >= own

\* line 147
SubtreeBeats(subtree_stability, own) == subtree_stability > own

\* a pass that does not hand the children's total up
NoPropagate(stab, node, subtree_stability) == stab

\* line 149
Propagate(stab, node, subtree_stability) == Put(stab, node, subtree_stability)

\* a loop without the test sub_node != node
AbsorbAll(ic, node, sub_nodes) ==
  [k \in DOMAIN ic \cup Range(sub_nodes) |->
     IF k \in Range(sub_nodes) THEN FALSE ELSE ic[k]]

\* lines 151-153: is_cluster[sub_node] = False for every sub_node but node
Absorb(ic, node, sub_nodes) ==
  [k \in DOMAIN ic \cup (Range(sub_nodes) \ {node}) |->
     IF k \in Range(sub_nodes) \ {node} THEN FALSE ELSE ic[k]]

\* the children read at lines 143-145
SelectChildren(t, node) == Column(RowsOf(ClusterTree(t), node), "child")

SubtreeStability(t, stab, node) ==
  SumSeq([i \in 1..Len(SelectChildren(t, node)) |-> stab[SelectChildren(t, node)[i]]])

\* line 155
Selected(stab, ic) == SelectSeq(NodeList(stab), LAMBDA k : ic[k])

\* lines 137-140
SelectStart ==
  /\ selPc = "idle"
  /\ stability' = FreshStability
  /\ node_list' = NodeList(stability')
  /\ is_cluster' = [k \in Range(node_list') |-> TRUE]
  /\ selPc' = "loop"
  /\ UNCHANGED <<raw_tree, stabMap, plotVars, results>>

\* one iteration of the loop of lines 142-153
SelectStep ==
  /\ selPc = "loop"
  /\ node_list # <<>>
  /\ LET node == Head(node_list)
     IN  IF \E k \in Range(SelectChildren(raw_tree, node)) : k \notin DOMAIN stability
         THEN /\ selPc' = "error"
              /\ UNCHANGED <<stability, is_cluster, node_list>>
         ELSE /\ IF SubtreeBeats(SubtreeStability(raw_tree, stability, node), stability[node])
                 THEN /\ is_cluster' = Put(is_cluster, node, FALSE)
                      /\ stability' = Propagate(stability, node,
                                                SubtreeStability(raw_tree, stability, node))
                 ELSE /\ is_cluster' = Absorb(is_cluster, node,
                                              bfs_from_cluster_tree(ClusterTree(raw_tree), node))
                      /\ UNCHANGED stability
              /\ node_list' = Tail(node_list)
              /\ UNCHANGED selPc
  /\ UNCHANGED <<raw_tree, stabMap, plotVars, results>>

\* line 155
SelectReturn ==
  /\ selPc = "loop"
  /\ node_list = <<>>
  /\ results' = <<Selected(stability, is_cluster)>>
  /\ selPc' = "idle"
  /\ UNCHANGED <<raw_tree, stabMap, plotVars, stability, node_list, is_cluster>>

InitSelect ==
  /\ IsSelectTree(raw_tree)
  /\ stabMap \in StabilityMaps(raw_tree)
  /\ PlotIdle
  /\ SelectIdle

NextSelect == SelectStart \/ SelectStep \/ SelectReturn

SpecSelect == InitSelect /\ [][NextSelect]_vars


\* ============================================================ properties
ScenarioStability(st) == st[1] = 5 /\ st[2] = 5 /\ st[3] = 2 /\ st[4] = 2

IsAntichain(t, A) == \A a, b \in A : b \notin Descendants(t, a)

\* the largest total stability of an antichain of non-root clusters
MaxAntichainSum(t, st) ==
  SetMax({ SumSet(st, A) : A \in { B \in SUBSET (Clusters(t) \ {Root(t)}) : IsAntichain(t, B) } })

\* every record hangs a single point under the root
Degenerate(t) == \A r \in Range(t) : r.parent = Root(t) /\ r.child_size = 1

\* C1: no list returned by _select_clusters holds a cluster together with one
\* of its descendants in the cluster tree, whatever the order of the ids.
C1_Antichain ==
  \A i \in 1..Len(results) : IsAntichain(raw_tree, Range(results[i]))

C1_Witness ==
  /\ results # <<>>
  /\ ~OrderedIds(raw_tree)
  /\ \E a \in Range(results[1]) : a # Root(raw_tree) /\ Descendants(raw_tree, a) # {}

\* C2: when every cluster child has a larger id than its parent, the original
\* stabilities of the returned clusters add up to the largest total any
\* antichain of non-root clusters reaches, hence to at least the total of the
\* root's direct cluster children.
C2_MaxStability ==
  \A i \in 1..Len(results) :
    OrderedIds(raw_tree) =>
      /\ SumSet(stabMap, Range(results[i])) = MaxAntichainSum(raw_tree, stabMap)
      /\ SumSet(stabMap, Range(results[i]))
           >= SumSet(stabMap, ClusterChildren(raw_tree, Root(raw_tree)))

C2_Witness ==
  /\ results # <<>>
  /\ OrderedIds(raw_tree)
  /\ SumSet(stabMap, Range(results[1]))
       > SumSet(stabMap, ClusterChildren(raw_tree, Root(raw_tree)))

\* C3: on the documented tree with stabilities 1:5, 2:5, 3:2, 4:2 and any
\* score for the root, _select_clusters returns exactly the clusters 1 and 2.
C3_ScenarioSelection ==
  (raw_tree = ScenarioTree /\ ScenarioStability(stabMap)) =>
    \A i \in 1..Len(results) : Range(results[i]) = {1, 2} /\ Len(results[i]) = 2

C3_Witness ==
  raw_tree = ScenarioTree /\ ScenarioStability(stabMap) /\ results # <<>>

\* C4 as stated: when get_plot_data returns, cluster_bounds has as many
\* entries as the array has records with child_size > 1.
C4_Original ==
  plotPc = "done" => Cardinality(DOMAIN cluster_bounds) = Len(ClusterTree(raw_tree))

\* C4 amended: when get_plot_data returns, cluster_bounds has exactly one
\* entry for every integer id from min(parent) to max(parent), the root
\* included.
C4_BoundsPerParentId ==
  plotPc = "done" =>
    /\ DOMAIN cluster_bounds = Root(raw_tree)..LastLeaf(raw_tree)
    /\ Cardinality(DOMAIN cluster_bounds) = LastLeaf(raw_tree) - Root(raw_tree) + 1

C4_Witness ==
  /\ plotPc = "done"
  /\ Cardinality(DOMAIN cluster_bounds) # Len(ClusterTree(raw_tree))
  /\ Len(ClusterTree(raw_tree)) > 1

\* C5: on a tree whose records all hang single points under the root (no
\* leaves of the cluster tree), get_plot_data returns normally, with empty
\* line sequences and without a failed coordinate lookup.
C5_DegenerateReturns ==
  (Degenerate(raw_tree) /\ plotPc \in {"done", "error"}) =>
    /\ plotPc = "done"
    /\ err = "none"
    /\ line_xs = <<>> /\ line_ys = <<>>

\* C6: on a tree whose cluster children have larger ids than their parents
\* and that has at least one leaf cluster, get_plot_data never looks up the
\* coordinate of a cluster before it was assigned.
C6_CoordinatesAssigned ==
  (OrderedIds(raw_tree) /\ get_leaves(raw_tree) # <<>>) =>
    ~(plotPc = "error" /\ err = "KeyError" /\ errKey \in Clusters(raw_tree))

\* C7 as stated: on the documented tree get_plot_data emits exactly 2
\* connector lines.
C7_Original ==
  (raw_tree = ScenarioTree /\ plotPc = "done") =>
    Len(line_xs) = 2 /\ Len(line_ys) = 2

\* C7 amended: on the documented tree get_plot_data emits exactly 4 connector
\* lines, one for each cluster edge 0->1, 0->2, 1->3, 1->4 in array order,
\* each at the lambda of its edge and starting at its parent's centre.
C7_FourConnectors ==
  (raw_tree = ScenarioTree /\ plotPc = "done") =>
    /\ Len(line_xs) = 4 /\ Len(line_ys) = 4
    /\ \A i \in 1..4 :
         /\ line_ys[i] = <<ScenarioTree[i].lambda, ScenarioTree[i].lambda>>
         /\ line_xs[i][1] = cluster_x_coords[ScenarioTree[i].parent] * scaling

C7_Witness ==
  raw_tree = ScenarioTree /\ plotPc = "done" /\ Len(line_xs) > 2

\* C8: every call of _select_clusters on the same object returns the same
\* list, because each call starts from a fresh stability map, and no step
\* changes the tree array.
C8_SameSelection ==
  [][ /\ raw_tree' = raw_tree
      /\ (results # <<>> /\ results' # <<>>) => results' = results ]_vars

\* a second call has finished its loop on a rewritten stability map
C8_Witness ==
  /\ results # <<>>
  /\ selPc = "loop" /\ node_list = <<>>
  /\ stability # stabMap
  /\ Selected(stability, is_cluster) = results[1]
  /\ results[1] # <<>>

\* C9: when the loop of _select_clusters evaluates a node whose cluster
\* children's current stabilities add up to exactly its own, the node keeps
\* its mark and its stability and all its descendants are marked not
\* selected; the node's mark or stability changes only when the sum is
\* strictly greater, and then the stability becomes the sum.
C9_TieFavoursParent ==
  [][ (selPc = "loop" /\ node_list # <<>> /\ selPc' = "loop") =>
        LET n   == Head(node_list)
            sub == SubtreeStability(raw_tree, stability, n)
        IN  /\ sub = stability[n] =>
                 /\ is_cluster'[n] = is_cluster[n]
                 /\ stability' = stability
                 /\ \A d \in Descendants(raw_tree, n) :
                      d \in DOMAIN is_cluster' /\ ~is_cluster'[d]
            /\ (is_cluster'[n] # is_cluster[n] \/ stability'[n] # stability[n]) =>
                 /\ sub > stability[n]
                 /\ stability'[n] = sub
                 /\ ~is_cluster'[n] ]_vars

C9_Witness ==
  /\ selPc = "loop"
  /\ \E n \in DOMAIN is_cluster :
       /\ n \notin Range(node_list)
       /\ n # Root(raw_tree)
       /\ ClusterChildren(raw_tree, n) # {}
       /\ is_cluster[n]
       /\ stability[n] > 0
       /\ SubtreeStability(raw_tree, stability, n) = stability[n]

\* C10: the bars one iteration of the bar loop emits for its cluster tile the
\* cluster's lambda interval: the first starts at the cluster's birth lambda,
\* each ends where the next starts, the last ends at the largest lambda of
\* the cluster's children (its CB_TOP), none has height zero, and each is as
\* wide as the children's total size less the sizes of the children that
\* left below the bar's end.
C10_BarsTile ==
  [][ (plotPc = "bars" /\ LoopActive(c, raw_tree) /\ plotPc' = "bars") =>
        LET n0    == Len(bar_bottoms)
            n1    == Len(bar_bottoms')
            kids  == RowsOf(raw_tree, c)
            total == SumSeq(Column(kids, "child_size"))
            Gone(l) == SumSeq(Column(SelectSeq(kids, LAMBDA r : r.lambda < l), "child_size"))
        IN  /\ n1 >= n0
            /\ Len(bar_tops') = n1 /\ Len(bar_widths') = n1 /\ Len(bar_centers') = n1
            /\ SubSeq(bar_bottoms', 1, n0) = bar_bottoms
            /\ SubSeq(bar_tops', 1, n0) = bar_tops
            /\ SubSeq(bar_widths', 1, n0) = bar_widths
            /\ n1 > n0 =>
                 /\ bar_bottoms'[n0 + 1] = cluster_y_coords[c]
                 /\ bar_bottoms'[n1] + bar_tops'[n1] = SetMax(Range(Column(kids, "lambda")))
                 /\ bar_bottoms'[n1] + bar_tops'[n1] = cluster_bounds'[c][CB_TOP]
            /\ \A i \in (n0 + 1)..(n1 - 1) :
                 bar_bottoms'[i] + bar_tops'[i] = bar_bottoms'[i + 1]
            /\ \A i \in (n0 + 1)..n1 :
                 /\ bar_tops'[i] # 0
                 /\ bar_widths'[i] = total - Gone(bar_bottoms'[i] + bar_tops'[i]) ]_vars

C10_Witness ==
  \E i \in 1..(Len(bar_bottoms) - 1) :
    /\ bar_bottoms[i] = 0
    /\ bar_tops[i] > 0
    /\ bar_bottoms[i + 1] = bar_tops[i]
    /\ bar_tops[i + 1] > 0
    /\ bar_widths[i + 1] < bar_widths[i]

====
